---- MODULE Spec2Model ----
(***************************************************************************)
(* Model of the trie-based paged attention cache                           *)
(* (shortfin_apps/llm/components/kvcache/trie_attention_cache.py).         *)
(*                                                                         *)
(* The cache is single threaded: every public operation runs to completion *)
(* and is one action of the model.  Trie nodes are objects with identity;  *)
(* the model addresses them by the order of their construction (node 0 is  *)
(* the root).  An evicted or overwritten node keeps existing as an object  *)
(* as long as something refers to it, so node records are never deleted.   *)
(* time.monotonic() is modelled by a strictly increasing logical clock.    *)
(* An exception raised inside an operation ends it where it is raised and  *)
(* leaves the changes made so far.  The page pool (page_pool.py) is an     *)
(* external collaborator: a free list with all-or-nothing acquisition.     *)
(* Callers use an Allocation as its lifecycle says: publish_pages is only  *)
(* called before release_pages; release_pages may be called repeatedly.    *)
(***************************************************************************)
EXTENDS Integers, Sequences, FiniteSets, TLC

\* ---------------------------------------------------------------- bounds
\* constructor argument tokens_per_page
TokensPerPage == 2
\* number of pages the page pool owns
PoolSize == 2
\* token ids are 1..MaxToken
MaxToken == 2
\* longest token list passed to acquire_pages_for_tokens
MaxLen == 4
\* largest extra_token_slots passed to acquire_pages_for_tokens
MaxExtra == 1
\* number of acquire_pages_for_tokens calls in one run
MaxAcquires == 2
\* number of acquire_pages_for_tokens calls in one run of SpecLong
MaxLongAcquires == 3
\* largest up_to_page_index passed to publish_pages
MaxPublish == 2
\* largest max_pages passed to a direct _evict_pages call
MaxEvict == 2

Tokens == 1..MaxToken
TokenLists == UNION {[1..n -> Tokens] : n \in 1..MaxLen}

\* "None" for a parent link; the root is the first node constructed
NoNode == -1
Root == 0

VARIABLES
    nodes,            \* node id -> TrieNode object (fields of the dataclass)
    leaves,           \* cache.leaves : set of node ids
    available_pages,  \* page_pool.available_pages : list of free pages
    allocs,           \* the Allocations returned so far, in creation order
    clock,            \* last value returned by time.monotonic()
    published,        \* per Allocation: largest index given to publish_pages
    acquire_calls,    \* number of acquire_pages_for_tokens calls made
    op                \* record of the last top-level operation (history)

vars == <<nodes, leaves, available_pages, allocs, published, clock,
          acquire_calls, op>>

\* ------------------------------------------------------------- utilities
Min(a, b) == IF a <= b THEN a ELSE b
Max(a, b) == IF a >= b THEN a ELSE b

Range(s) == {s[i] : i \in 1..Len(s)}

\* the element of a one-element set; Only({F(x) : x \in {e}}) is F(e) with e
\* evaluated once
Only(S) == CHOOSE x \in S : TRUE

\* math.ceil(n / d) for an integer n (possibly negative) and d > 0
Ceil(n, d) == -((-n) \div d)

\* s[from:] and s[:to] of Python, 0-based
Drop(s, n) == SubSeq(s, n + 1, Len(s))
Take(s, n) == SubSeq(s, 1, Min(n, Len(s)))

\* tokens[i : i + tokens_per_page], i 0-based; short at the end of the list
Block(tokens, i) == SubSeq(tokens, i + 1, Min(i + TokensPerPage, Len(tokens)))

\* list(range(start, stop, step)) for step > 0
PyRange(start, stop, step) ==
    IF stop <= start THEN <<>>
    ELSE [j \in 1..Ceil(stop - start, step) |-> start + (j - 1) * step]

\* ------------------------------------------------------------- TrieNode
\* TrieNode(tokens, page, parent) followed by __post_init__
EmptyDict == [x \in {} |-> Root]

NewNode(tokens, page, parent, now) ==
    [tokens |-> tokens, page |-> page, children |-> EmptyDict, parent |-> parent,
     ref_count |-> 0, access_time |-> now]

\* dict assignment d[k] = v and deletion del d[k]
DictSet(d, k, v) == [x \in (DOMAIN d) \cup {k} |-> IF x = k THEN v ELSE d[x]]
DictDel(d, k) == [x \in (DOMAIN d) \ {k} |-> d[x]]

\* TrieNode.create_child: the new node gets the next object identity; the
\* parent's children[tokens] is overwritten when the key is already there.
create_child(nds, self, tokens, page, now) ==
    LET new == Cardinality(DOMAIN nds)
        ext == [i \in 0..new |-> IF i = new THEN NewNode(tokens, page, self, now)
                                 ELSE nds[i]]
    IN  [ext EXCEPT ![self].children = DictSet(@, tokens, new)]

\* an unlink that only clears the parent link and leaves the node stored in
\* its parent's children
unlink_keeps_entry(nds, self) ==
    IF nds[self].parent = NoNode THEN nds
    ELSE [nds EXCEPT ![self].parent = NoNode]

\* TrieNode.unlink, for a node with a parent: del self.parent.children[
\* self.tokens] removes whatever node is stored under the key, then the
\* parent link is cleared.  The caller handles the missing key (KeyError).
unlink(nds, self) ==
    LET p == nds[self].parent
    IN  IF p = NoNode THEN nds
        ELSE [nds EXCEPT ![p].children = DictDel(@, nds[self].tokens),
                         ![self].parent = NoNode]

\* ------------------------------------------------------------ page pool
\* PagePool.acquire_free_pages(n): all or nothing; the pages are popped
\* from the end of the free list.  "None" is modelled by ok = FALSE.
acquire_free_pages(avail, n) ==
    IF n > Len(avail)
    THEN [ok |-> FALSE, pages |-> <<>>, rest |-> avail]
    ELSE [ok |-> TRUE,
          pages |-> [j \in 1..n |-> avail[Len(avail) - j + 1]],
          rest |-> Take(avail, Len(avail) - n)]

\* PagePool.free_pages(pages): the pages go back on the free list.
free_pages(avail, pages) == avail \o pages

\* ---------------------------------------------------------------- _match
\* The loop of _match from block offset i on: descend while the block is a
\* key of cur.children, stamping each visited child with a fresh time.
RECURSIVE MatchFrom(_, _, _, _, _, _)
MatchFrom(nds, tokens, i, cur, matched_pages, now) ==
    IF i >= Len(tokens)
    THEN [nodes |-> nds, node |-> cur, pages |-> matched_pages, clock |-> now]
    ELSE LET token_block == Block(tokens, i)
         IN  IF token_block \notin DOMAIN nds[cur].children
             THEN [nodes |-> nds, node |-> cur, pages |-> matched_pages,
                   clock |-> now]
             ELSE Only({MatchFrom([nds EXCEPT ![c].access_time = now + 1],
                                  tokens, i + TokensPerPage, c,
                                  Append(matched_pages, nds[c].page), now + 1)
                        : c \in {nds[cur].children[token_block]}})

_match(nds, tokens, now) == MatchFrom(nds, tokens, 0, Root, <<>>, now)

\* ---------------------------------------------------------- _evict_pages
\* The heap holds (access_time, leaf) tuples.  Distinct nodes carry distinct
\* times, and two entries of one node are equal tuples, so the heap order
\* is the order of the times.
\* (variant: the heap is filled with every leaf, referenced or not)
InitialHeapAllLeaves(nds, lvs) ==
    {<<nds[leaf].access_time, leaf>> : leaf \in lvs}

InitialHeap(nds, lvs) ==
    {<<nds[leaf].access_time, leaf>> : leaf \in {l \in lvs : nds[l].ref_count = 0}}

\* the bag of heap entries is kept as entry -> number of copies
BagOfSet(S) == [e \in S |-> 1]
BagPush(b, e) == IF e \in DOMAIN b THEN [b EXCEPT ![e] = @ + 1]
                 ELSE [x \in (DOMAIN b) \cup {e} |-> IF x = e THEN 1 ELSE b[x]]
BagPop(b, e) == IF b[e] > 1 THEN [b EXCEPT ![e] = @ - 1]
                ELSE [x \in (DOMAIN b) \ {e} |-> b[x]]

\* (variant: the most recently used entry is popped)
HeapMax(heap) ==
    CHOOSE e \in DOMAIN heap : \A f \in DOMAIN heap : e[1] >= f[1]

\* heapq.heappop: the entry with the smallest access_time
HeapMin(heap) ==
    CHOOSE e \in DOMAIN heap : \A f \in DOMAIN heap : e[1] <= f[1]

\* One iteration of the while loop of _evict_pages.  ev carries the trie,
\* the leaf set, the heap, pages_to_evict, the exception raised (if any) and
\* a log entry for every popped node, taken when it is popped.
EvictStep(ev) ==
    LET e      == HeapMin(ev.heap)
        leaf   == e[2]
        nd     == ev.nodes[leaf]
        parent == nd.parent
        linked == /\ parent # NoNode
                  /\ nd.tokens \in DOMAIN ev.nodes[parent].children
        entry  == [node |-> leaf, access_time |-> nd.access_time,
                   ref_count |-> nd.ref_count,
                   unlinked |-> linked,
                   n_children |-> Cardinality(DOMAIN nd.children),
                   parent |-> parent,
                   is_child |-> linked /\ ev.nodes[parent].children[nd.tokens] = leaf,
                   in_leaves |-> leaf \in ev.leaves,
                   page |-> nd.page]
        popped == [ev EXCEPT !.heap = BagPop(@, e),
                             !.pages_to_evict = Append(@, nd.page),
                             !.log = Append(@, entry)]
        nds1   == unlink(ev.nodes, leaf)
        lvs1   == ev.leaves \ {leaf}
    IN  IF parent # NoNode /\ ~linked
        THEN \* del self.parent.children[self.tokens] raises KeyError
             [popped EXCEPT !.err = "KeyError"]
        ELSE IF leaf \notin ev.leaves
        THEN \* self.leaves.remove(leaf) raises KeyError
             [popped EXCEPT !.nodes = nds1, !.err = "KeyError"]
        ELSE IF parent = NoNode
        THEN \* parent is None: parent.children raises AttributeError
             [popped EXCEPT !.nodes = nds1, !.leaves = lvs1,
                            !.err = "AttributeError"]
        ELSE IF parent # Root /\ DOMAIN nds1[parent].children = {}
        THEN [popped EXCEPT
                !.nodes = nds1,
                !.leaves = lvs1 \cup {parent},
                !.heap = IF nds1[parent].ref_count = 0
                         THEN BagPush(BagPop(ev.heap, e),
                                      <<nds1[parent].access_time, parent>>)
                         ELSE BagPop(ev.heap, e)]
        ELSE [popped EXCEPT !.nodes = nds1, !.leaves = lvs1]

RECURSIVE EvictLoop(_, _)
EvictLoop(ev, max_pages) ==
    IF ev.err # "ok" \/ DOMAIN ev.heap = {} \/ Len(ev.pages_to_evict) >= max_pages
    THEN ev
    ELSE Only({EvictLoop(next, max_pages) : next \in {EvictStep(ev)}})

\* _evict_pages(max_pages) on the given trie, leaf set and free list.  The
\* collected pages are freed in one batch at the end, which an exception
\* raised in the loop skips.
_evict_pages(nds, lvs, avail, max_pages) ==
    LET ev0 == [nodes |-> nds, leaves |-> lvs,
                heap |-> BagOfSet(InitialHeap(nds, lvs)),
                pages_to_evict |-> <<>>, err |-> "ok", log |-> <<>>]
    IN  Only({
         [nodes |-> ev.nodes, leaves |-> ev.leaves, err |-> ev.err, log |-> ev.log,
          eligible |-> {l \in lvs : nds[l].ref_count = 0},
          freed |-> IF ev.err = "ok" THEN ev.pages_to_evict ELSE <<>>,
          available |-> IF ev.err = "ok" /\ ev.pages_to_evict # <<>>
                        THEN free_pages(avail, ev.pages_to_evict) ELSE avail]
         : ev \in {EvictLoop(ev0, max_pages)}})

\* ------------------------------------------ TriePageAttentionCacheAllocation
\* __init__
NewAllocation(tokens, last_cached_node, cached_pages, newly_acquired_pages, start_index) ==
    [tokens |-> tokens, last_cached_node |-> last_cached_node,
     cached_pages |-> cached_pages,
     newly_acquired_pages |-> newly_acquired_pages,
     start_index |-> start_index, is_released |-> FALSE]

\* the pages property
pages(al) == al.cached_pages \o al.newly_acquired_pages

\* (variant: up_to_page_index counts from the pages already cached)
UncachedTokensIncremental(al, up_to_page_index) ==
    LET first_uncached_page_index == Len(al.cached_pages)
        publish_token_count ==
            Min(Len(al.tokens),
                (first_uncached_page_index + up_to_page_index) * TokensPerPage)
        starts == PyRange(first_uncached_page_index * TokensPerPage,
                          publish_token_count, TokensPerPage)
    IN  [j \in 1..Len(starts) |-> Block(al.tokens, starts[j])]

\* uncached_tokens of publish_pages: the blocks from the first uncached
\* page up to publish_token_count
UncachedTokens(al, up_to_page_index) ==
    LET publish_token_count ==
            Min(Len(al.tokens), up_to_page_index * TokensPerPage)
        first_uncached_page_index == Len(al.cached_pages)
        starts == PyRange(first_uncached_page_index * TokensPerPage,
                          publish_token_count, TokensPerPage)
    IN  [j \in 1..Len(starts) |-> Block(al.tokens, starts[j])]

\* the loop over zip(uncached_tokens, uncached_pages): one child per pair,
\* each under the one before.  Returns the trie, the last node and the clock.
RECURSIVE Graft(_, _, _, _, _, _)
Graft(nds, cur_node, blocks, pgs, j, now) ==
    IF j > Len(blocks) \/ j > Len(pgs)
    THEN [nodes |-> nds, node |-> cur_node, clock |-> now]
    ELSE Only({Graft(grown, Cardinality(DOMAIN nds), blocks, pgs, j + 1, now + 1)
               : grown \in {create_child(nds, cur_node, blocks[j], pgs[j], now + 1)}})

\* whether publish_pages puts its final node into cache.leaves
AddsLeaf(cur_node) == cur_node # Root

\* publish_pages(up_to_page_index) of allocation al
publish_pages(al, nds, lvs, now, up_to_page_index) ==
    LET uncached_tokens == UncachedTokens(al, up_to_page_index)
        uncached_pages  == Take(al.newly_acquired_pages, Len(uncached_tokens))
    IN  Only({
         LET cur_node == g.node
             nds1     == [g.nodes EXCEPT ![cur_node].ref_count = @ + 1]
             nds2     == [nds1 EXCEPT ![al.last_cached_node].ref_count = @ - 1]
         IN  [nodes  |-> nds2,
              leaves |-> IF AddsLeaf(cur_node) THEN lvs \cup {cur_node} ELSE lvs,
              clock  |-> g.clock,
              alloc  |-> [al EXCEPT
                            !.cached_pages = @ \o uncached_pages,
                            !.newly_acquired_pages = Drop(@, Len(uncached_pages)),
                            !.last_cached_node = cur_node]]
         : g \in {Graft(nds, al.last_cached_node, uncached_tokens,
                        uncached_pages, 1, now)}})

\* (variant: no early return for an allocation already released)
release_pages_unguarded(al, nds) ==
    [nodes |-> [nds EXCEPT ![al.last_cached_node].ref_count = @ - 1],
     alloc |-> [al EXCEPT !.is_released = TRUE]]

\* release_pages() of allocation al
release_pages(al, nds) ==
    IF al.is_released
    THEN [nodes |-> nds, alloc |-> al]
    ELSE [nodes |-> [nds EXCEPT ![al.last_cached_node].ref_count = @ - 1],
          alloc |-> [al EXCEPT !.is_released = TRUE]]

\* ------------------------------------------------ acquire_pages_for_tokens
\* n_empty_pages: the number of pages requested from the pool
EmptyPagesNeeded(tokens, n_matched_pages, extra_token_slots) ==
    LET n_cached_tokens  == n_matched_pages * TokensPerPage
        remaining_length == Len(tokens) - n_cached_tokens + extra_token_slots
    IN  Ceil(remaining_length, TokensPerPage)

\* the Allocation returned, and the state left, once the pages are there
AcquireReturn(tokens, m, trie, avail_left, new_pages, ev) ==
    [result |-> "ok", node |-> m.node, clock |-> m.clock,
     need |-> Len(new_pages),
     nodes |-> trie.nodes, leaves |-> trie.leaves, available |-> avail_left,
     evict_called |-> ev.called, eligible |-> ev.eligible, log |-> ev.log,
     freed |-> ev.freed,
     alloc |-> <<NewAllocation(tokens, m.node, m.pages, new_pages,
                               Len(m.pages) * TokensPerPage)>>]

\* a failure path that would undo the pin before raising
AcquireRaiseUnpinned(exception, m, ev, n_empty_pages) ==
    [result |-> exception, node |-> m.node, clock |-> m.clock,
     need |-> n_empty_pages,
     nodes |-> [ev.nodes EXCEPT ![m.node].ref_count = @ - 1],
     leaves |-> ev.leaves, available |-> ev.available,
     evict_called |-> TRUE, eligible |-> ev.eligible, log |-> ev.log,
     freed |-> ev.freed, alloc |-> <<>>]

\* the state left when the call ends in an exception
AcquireRaise(exception, m, ev, n_empty_pages) ==
    [result |-> exception, node |-> m.node, clock |-> m.clock,
     need |-> n_empty_pages,
     nodes |-> ev.nodes, leaves |-> ev.leaves, available |-> ev.available,
     evict_called |-> TRUE, eligible |-> ev.eligible, log |-> ev.log,
     freed |-> ev.freed, alloc |-> <<>>]

\* the part of acquire_pages_for_tokens after the first pool request failed
EvictAndRetry(tokens, m, pinned, lvs, avail, n_empty_pages) ==
    Only({
      IF ev.err # "ok"
      THEN AcquireRaise(ev.err, m, ev, n_empty_pages)
      ELSE Only({
             IF ~second.ok
             THEN AcquireRaise("CacheAllocationFailure", m, ev, n_empty_pages)
             ELSE AcquireReturn(tokens, m, ev, second.rest, second.pages,
                                [called |-> TRUE, eligible |-> ev.eligible,
                                 log |-> ev.log, freed |-> ev.freed])
             : second \in {acquire_free_pages(ev.available, n_empty_pages)}})
      : ev \in {_evict_pages(pinned, lvs, avail, n_empty_pages - Len(avail))}})

acquire_pages_for_tokens(nds, lvs, avail, now, tokens, extra_token_slots) ==
    Only({
      LET cur_node == m.node
          pinned   == [m.nodes EXCEPT ![cur_node].ref_count = @ + 1]
          n_empty_pages ==
              EmptyPagesNeeded(tokens, Len(m.pages), extra_token_slots)
          new_pages == acquire_free_pages(avail, n_empty_pages)
      IN  IF new_pages.ok
          THEN AcquireReturn(tokens, m, [nodes |-> pinned, leaves |-> lvs],
                             new_pages.rest, new_pages.pages,
                             [called |-> FALSE, eligible |-> {}, log |-> <<>>,
                              freed |-> <<>>])
          ELSE EvictAndRetry(tokens, m, pinned, lvs, avail, n_empty_pages)
      : m \in {_match(nds, tokens, now)}})

\* ------------------------------------------------------------------ Init
\* TriePagedAttentionCache.__init__ on a fresh pool: the root holds the
\* dummy page 0; the pool's pages are 1..PoolSize, all free.
Init ==
    /\ nodes = [i \in {Root} |-> NewNode(<<>>, 0, NoNode, 0)]
    /\ leaves = {}
    /\ available_pages = [i \in 1..PoolSize |-> i]
    /\ allocs = <<>>
    /\ published = <<>>
    /\ clock = 0
    /\ acquire_calls = 0
    /\ op = [kind |-> "init", alloc |-> 0, arg |-> 0, result |-> "ok",
             node |-> Root, need |-> 0, evict_called |-> FALSE,
             eligible |-> {}, log |-> <<>>, freed |-> <<>>]

\* --------------------------------------------------------------- actions
\* a call of cache.acquire_pages_for_tokens(tokens, extra_token_slots)
AcquireCall(tokens, extra_token_slots) ==
    /\ \E r \in {acquire_pages_for_tokens(nodes, leaves, available_pages, clock,
                                            tokens, extra_token_slots)} :
           /\ nodes' = r.nodes
           /\ leaves' = r.leaves
           /\ available_pages' = r.available
           /\ allocs' = allocs \o r.alloc
           /\ published' = published \o [j \in 1..Len(r.alloc) |-> -1]
           /\ clock' = r.clock
           /\ op' = [kind |-> "acquire",
                     alloc |-> IF r.alloc = <<>> THEN 0 ELSE Len(allocs) + 1,
                     arg |-> extra_token_slots, result |-> r.result,
                     node |-> r.node, need |-> r.need,
                     evict_called |-> r.evict_called,
                     eligible |-> r.eligible, log |-> r.log, freed |-> r.freed]
    /\ acquire_calls' = acquire_calls + 1

\* the call, while fewer than MaxAcquires calls were made
Acquire(tokens, extra_token_slots) ==
    /\ acquire_calls < MaxAcquires
    /\ AcquireCall(tokens, extra_token_slots)

\* a call of allocs[a].publish_pages(k) on an allocation not yet released
Publish(a, k) ==
    /\ ~allocs[a].is_released
    /\ \E r \in {publish_pages(allocs[a], nodes, leaves, clock, k)} :
           /\ nodes' = r.nodes
           /\ leaves' = r.leaves
           /\ clock' = r.clock
           /\ allocs' = [allocs EXCEPT ![a] = r.alloc]
    /\ published' = [published EXCEPT ![a] = Max(@, k)]
    /\ op' = [kind |-> "publish", alloc |-> a, arg |-> k,
              result |-> IF published[a] >= k THEN "repeat" ELSE "ok",
              node |-> allocs[a].last_cached_node, need |-> 0,
              evict_called |-> FALSE, eligible |-> {}, log |-> <<>>,
              freed |-> <<>>]
    /\ UNCHANGED <<available_pages, acquire_calls>>

\* a call of allocs[a].release_pages(), the first or a later one
Release(a) ==
    /\ \E r \in {release_pages(allocs[a], nodes)} :
           /\ nodes' = r.nodes
           /\ allocs' = [allocs EXCEPT ![a] = r.alloc]
    /\ op' = [kind |-> "release", alloc |-> a, arg |-> 0,
              result |-> IF allocs[a].is_released THEN "again" ELSE "ok",
              node |-> allocs[a].last_cached_node, need |-> 0,
              evict_called |-> FALSE, eligible |-> {}, log |-> <<>>,
              freed |-> <<>>]
    /\ UNCHANGED <<leaves, available_pages, published, clock, acquire_calls>>

\* a direct call of cache._evict_pages(max_pages)
Evict(max_pages) ==
    /\ \E r \in {_evict_pages(nodes, leaves, available_pages, max_pages)} :
           /\ nodes' = r.nodes
           /\ leaves' = r.leaves
           /\ available_pages' = r.available
           /\ op' = [kind |-> "evict", alloc |-> 0, arg |-> max_pages,
                     result |-> r.err, node |-> Root, need |-> 0,
                     evict_called |-> TRUE,
                     eligible |-> r.eligible, log |-> r.log, freed |-> r.freed]
    /\ UNCHANGED <<allocs, published, clock, acquire_calls>>

Next ==
    \/ \E tokens \in TokenLists, extra \in 0..MaxExtra : Acquire(tokens, extra)
    \/ \E a \in DOMAIN allocs, k \in 0..MaxPublish : Publish(a, k)
    \/ \E a \in DOMAIN allocs : Release(a)
    \/ \E n \in 1..MaxEvict : Evict(n)

Spec == Init /\ [][Next]_vars

\* ------------------------------------------------- longer call sequences
\* One more acquire call than Spec allows, over sequences that repeat one
\* token: blocks differ by their length only, which keeps the state space
\* small enough for three Allocations.
OneTokenLists == {[i \in 1..n |-> 1] : n \in 1..MaxLen}

AcquireLong(tokens, extra_token_slots) ==
    /\ acquire_calls < MaxLongAcquires
    /\ AcquireCall(tokens, extra_token_slots)

NextLong ==
    \/ \E tokens \in OneTokenLists, extra \in 0..MaxExtra : AcquireLong(tokens, extra)
    \/ \E a \in DOMAIN allocs, k \in 0..MaxPublish : Publish(a, k)
    \/ \E a \in DOMAIN allocs : Release(a)
    \/ \E n \in 1..MaxEvict : Evict(n)

SpecLong == Init /\ [][NextLong]_vars

\* ================================================================ claims
\* the nodes of the trie: those reachable from the root through children
RECURSIVE ReachFrom(_, _)
ReachFrom(nds, S) ==
    LET T == S \cup UNION {{nds[n].children[b] : b \in DOMAIN nds[n].children} : n \in S}
    IN  IF T = S THEN S ELSE ReachFrom(nds, T)

TrieNodes == ReachFrom(nodes, {Root})

Childless(n) == DOMAIN nodes[n].children = {}

\* the Allocations returned by acquire and not yet released
Live == {a \in DOMAIN allocs : ~allocs[a].is_released}

\* number of occurrences of x in the list s
Count(s, x) == Cardinality({i \in 1..Len(s) : s[i] = x})

\* C1: leaves is exactly the set of non-root trie nodes without children.
C1_LeafSetCorrect ==
    leaves = {n \in TrieNodes \ {Root} : Childless(n)}

\* C2: every node's ref_count is >= 0 and is the number of live Allocations
\* whose last_cached_node is that node (so the sum over all nodes is the
\* number of live Allocations), also after a failed acquire.
C2_RefCountCorrect ==
    \A n \in DOMAIN nodes :
        /\ nodes[n].ref_count >= 0
        /\ nodes[n].ref_count =
               Cardinality({a \in Live : allocs[a].last_cached_node = n})

\* number of leading whole blocks two token lists have in common
CommonBlocks(t1, t2) ==
    LET Same(p) == /\ p * TokensPerPage <= Min(Len(t1), Len(t2))
                   /\ SubSeq(t1, 1, p * TokensPerPage) = SubSeq(t2, 1, p * TokensPerPage)
    IN  CHOOSE p \in 0..Len(t1) : Same(p) /\ ~Same(p + 1)

\* publish_pages was called with an index that covers all the tokens
FullyPublished(a) == published[a] * TokensPerPage >= Len(allocs[a].tokens)

\* C3: two live, fully published Allocations whose token lists share their
\* first P whole blocks have the same first P page handles.
C3_PrefixSharing ==
    \A a, b \in Live :
        (FullyPublished(a) /\ FullyPublished(b)) =>
            LET P == CommonBlocks(allocs[a].tokens, allocs[b].tokens)
            IN  Take(pages(allocs[a]), P) = Take(pages(allocs[b]), P)

\* C4: every page of the pool is in exactly one place: on the free list,
\* bound to a non-root trie node, or in newly_acquired_pages of a live
\* Allocation.
C4_PageConservation ==
    \A p \in 1..PoolSize :
        Count(available_pages, p)
        + Cardinality({n \in TrieNodes \ {Root} : nodes[n].page = p})
        + Cardinality({<<a, i>> \in Live \X (1..PoolSize) :
               /\ i <= Len(allocs[a].newly_acquired_pages)
               /\ allocs[a].newly_acquired_pages[i] = p})
        = 1

\* the Allocations that were live throughout the last operation
LiveBefore == {a \in Live : ~(op.kind = "acquire" /\ op.alloc = a)}

\* C5: an eviction never passes a page of a live Allocation to free_pages.
C5_LivePagesNotFreed ==
    \A a \in LiveBefore : Range(pages(allocs[a])) \cap Range(op.freed) = {}

\* C6: every node _evict_pages unlinks is a non-root node that has no
\* children when it is unlinked.
C6_EvictsOnlyLeaves ==
    \A i \in 1..Len(op.log) :
        op.log[i].unlinked => (op.log[i].node # Root /\ op.log[i].n_children = 0)

\* C7: every node _evict_pages takes from its heap and unlinks, from the
\* initial heap or pushed later, has ref_count 0 at that moment.
C7_EvictsOnlyUnreferenced ==
    \A i \in 1..Len(op.log) : op.log[i].ref_count = 0

\* C7 witness: an eviction that unlinked a leaf of its initial heap and then
\* the parent it pushed when that parent became childless.
C7_Witness ==
    /\ op.evict_called
    /\ \E i \in 1..Len(op.log) : op.log[i].unlinked /\ op.log[i].node \in op.eligible
    /\ \E i \in 1..Len(op.log) : op.log[i].unlinked /\ op.log[i].node \notin op.eligible

\* C8: when _evict_pages runs with at least one eligible leaf (in leaves,
\* ref_count 0), the first node it evicts is an eligible leaf whose
\* access_time is the smallest among the eligible leaves.
C8_LruFirst ==
    (op.evict_called /\ op.eligible # {}) =>
        /\ Len(op.log) >= 1
        /\ op.log[1].node \in op.eligible
        /\ \A l \in op.eligible : op.log[1].access_time <= nodes[l].access_time

\* C8 witness: a completed eviction that had two eligible leaves to choose
\* from, both of released sequences, and took one.
C8_Witness ==
    /\ op.kind = "evict" /\ op.result = "ok"
    /\ Cardinality(op.eligible) >= 2
    /\ Len(op.log) = 1 /\ op.log[1].unlinked
    /\ Live = {} /\ Len(allocs) = 2

\* C9: the first release_pages call decrements last_cached_node.ref_count
\* by one and marks the Allocation released; a later call changes nothing.
C9_ReleaseIdempotent ==
    [][op'.kind = "release" =>
        LET a == op'.alloc
            n == allocs[a].last_cached_node
        IN  /\ leaves' = leaves /\ available_pages' = available_pages
            /\ IF allocs[a].is_released
               THEN nodes' = nodes /\ allocs' = allocs
               ELSE /\ nodes' = [nodes EXCEPT ![n].ref_count = nodes[n].ref_count - 1]
                    /\ allocs' = [allocs EXCEPT ![a].is_released = TRUE]]_vars

\* C9 witness: release_pages was called on an Allocation already released
\* whose node another live Allocation still references.
C9_Witness ==
    /\ op.kind = "release" /\ op.result = "again"
    /\ nodes[op.node].ref_count >= 1

\* C10: publish_pages(k2) on a live Allocation whose largest earlier index
\* k1 is >= k2 leaves the trie, the leaf set and the Allocation unchanged.
C10_PublishMonotone ==
    [][(op'.kind = "publish" /\ op'.arg <= published[op'.alloc]) =>
        /\ nodes' = nodes /\ leaves' = leaves /\ allocs' = allocs
        /\ available_pages' = available_pages]_vars

\* C10 witness: a repeated publish_pages on an Allocation that has cached
\* pages and pages not yet published, after another Allocation grafted a
\* child under its last_cached_node.
C10_Witness ==
    /\ op.kind = "publish" /\ op.result = "repeat" /\ op.arg >= 1
    /\ allocs[op.alloc].cached_pages # <<>>
    /\ ~Childless(allocs[op.alloc].last_cached_node)

\* C11: every non-root trie node holds a token block of exactly
\* tokens_per_page tokens: publish_pages grafts whole blocks only and the
\* page of a partial tail stays in newly_acquired_pages.
C11_WholeBlocksOnly ==
    \A n \in TrieNodes \ {Root} : Len(nodes[n].tokens) = TokensPerPage

\* C12: an acquire_pages_for_tokens call that ends in CacheAllocationFailure
\* returns no Allocation and leaves the ref_count of the node it matched and
\* pinned one higher than before the call.
C12_FailedAcquireKeepsPin ==
    [][(op'.kind = "acquire" /\ op'.result = "CacheAllocationFailure") =>
        /\ allocs' = allocs
        /\ nodes'[op'.node].ref_count = nodes[op'.node].ref_count + 1]_vars

\* C12 witness: a failed acquire that matched a cached block, ran an
\* eviction that unlinked a node, and still left the pool short.
C12_Witness ==
    /\ op.kind = "acquire" /\ op.result = "CacheAllocationFailure"
    /\ op.node # Root
    /\ \E i \in 1..Len(op.log) : op.log[i].unlinked

\* the nodes met walking down from n through the first child of each node
RECURSIVE ChainFrom(_)
ChainFrom(n) ==
    IF Childless(n)
    THEN <<>>
    ELSE LET c == nodes[n].children[CHOOSE t \in DOMAIN nodes[n].children : TRUE]
         IN  <<c>> \o ChainFrom(c)

\* the trie is a chain root -> N1 -> ... -> Nk, k >= 1, of unreferenced nodes
IsChain ==
    /\ ~Childless(Root)
    /\ \A n \in TrieNodes : Cardinality(DOMAIN nodes[n].children) <= 1
    /\ \A n \in TrieNodes \ {Root} : nodes[n].ref_count = 0

Reverse(s) == [i \in 1..Len(s) |-> s[Len(s) + 1 - i]]

\* C13: when the trie is a chain root -> N1 -> ... -> Nk of unreferenced
\* nodes, _evict_pages(k) evicts Nk, N(k-1), ..., N1 in that order, returns
\* k, leaves the leaf set empty and returns k distinct pages to the pool.
C13_EvictionBubbling ==
    [][(op'.kind = "evict" /\ IsChain /\ op'.arg = Len(ChainFrom(Root))) =>
        LET chain == ChainFrom(Root)
        IN  /\ op'.result = "ok"
            /\ [i \in 1..Len(op'.log) |-> op'.log[i].node] = Reverse(chain)
            /\ leaves' = {}
            /\ Len(op'.freed) = Len(chain)
            /\ Range(op'.freed) = {nodes[chain[i]].page : i \in 1..Len(chain)}
            /\ Cardinality(Range(op'.freed)) = Len(chain)
            /\ available_pages' = available_pages \o op'.freed]_vars

\* C14: a successful acquire_pages_for_tokens(tokens, extra_token_slots)
\* returns an Allocation with exactly
\* ceil((max(0, len(tokens) - cached_tokens) + extra_token_slots) / tokens_per_page)
\* newly acquired pages, where cached_tokens = len(matched pages) *
\* tokens_per_page, and with start_index = cached_tokens.
C14_AcquireSizing ==
    (op.kind = "acquire" /\ op.result = "ok") =>
        LET al == allocs[op.alloc]
            cached_tokens == Len(al.cached_pages) * TokensPerPage
        IN  /\ Len(al.newly_acquired_pages)
                 = Ceil(Max(0, Len(al.tokens) - cached_tokens) + op.arg, TokensPerPage)
            /\ al.start_index = cached_tokens

\* C15: every non-root node N that was created and has not been evicted
\* (unlink clears the parent of an evicted node) is the child stored under
\* its own token block in its parent: N.parent.children[N.tokens] is N.
C15_ParentChildConsistent ==
    \A n \in DOMAIN nodes \ {Root} :
        nodes[n].parent # NoNode =>
            /\ nodes[n].tokens \in DOMAIN nodes[nodes[n].parent].children
            /\ nodes[nodes[n].parent].children[nodes[n].tokens] = n

\* C16: the pages bound to the non-root trie nodes are pairwise distinct and
\* none of them is on the pool's free list.
C16_TriePagesDistinctNotFree ==
    /\ \A m, n \in TrieNodes \ {Root} : nodes[m].page = nodes[n].page => m = n
    /\ \A n \in TrieNodes \ {Root} : nodes[n].page \notin Range(available_pages)

\* C16 witness: a completed eviction returned a page to the pool's free
\* list while another node, holding its own page, stayed in the trie.
C16_Witness ==
    /\ op.evict_called /\ op.result = "ok" /\ op.freed # <<>>
    /\ \E i \in 1..Len(op.log) : op.log[i].unlinked /\ op.log[i].is_child
    /\ TrieNodes # {Root}
    /\ available_pages # <<>>

\* C17: immediately after a live Allocation a calls publish_pages(n),
\* _match(a.tokens) returns a.last_cached_node as the deepest node and
\* matched pages equal to a.cached_pages.
C17_PublishThenMatch ==
    op.kind = "publish" =>
        \E m \in {_match(nodes, allocs[op.alloc].tokens, clock)} :
            /\ m.node = allocs[op.alloc].last_cached_node
            /\ m.pages = allocs[op.alloc].cached_pages

\* C18: the pages of the Allocation that acquire_pages_for_tokens returns
\* are pairwise distinct; when the call had to evict, no page of
\* cached_pages was freed by that eviction and handed back in
\* newly_acquired_pages.
C18_AllocationPagesDistinct ==
    (op.kind = "acquire" /\ op.result = "ok") =>
        LET al == allocs[op.alloc]
        IN  /\ \A p \in Range(pages(al)) : Count(pages(al), p) = 1
            /\ Range(al.cached_pages) \cap Range(op.freed)
                   \cap Range(al.newly_acquired_pages) = {}

\* C19: one call of _evict_pages passes each page to free_pages at most
\* once and evicts each node at most once, every page it frees was not
\* already free, and every unlink finds the evicted node under its own key
\* in its parent's children: the call never aborts on a missing key.
C19_NoDoubleFreeNoFailedUnlink ==
    [][op'.evict_called =>
        /\ \A p \in Range(op'.freed) : Count(op'.freed, p) = 1
        /\ \A i, j \in 1..Len(op'.log) : op'.log[i].node = op'.log[j].node => i = j
        /\ Range(op'.freed) \cap Range(available_pages) = {}
        /\ \A i \in 1..Len(op'.log) : op'.log[i].is_child
        /\ op'.result # "KeyError"]_vars

\* the evictable nodes at a call that pins node pin: the non-root trie
\* nodes other than pin whose whole subtree is unreferenced
Evictable(pin) ==
    {n \in TrieNodes \ {Root, pin} :
        \A d \in ReachFrom(nodes, {n}) : d # pin /\ nodes[d].ref_count = 0}

\* C20: acquire_pages_for_tokens raises CacheAllocationFailure only when the
\* pages it needs exceed the pool's free pages plus the number of evictable
\* trie nodes; whenever that total is at least the need, the eviction and
\* the retry free enough and the call returns an Allocation.
C20_EvictionComplete ==
    [][op'.kind = "acquire" =>
        LET total == Len(available_pages) + Cardinality(Evictable(op'.node))
        IN  /\ op'.result = "CacheAllocationFailure" => op'.need > total
            /\ total >= op'.need => op'.result = "ok"]_vars

====
